---- MODULE Spec2Model ----
(***************************************************************************)
(* The bounded tool-calling agent loop, in its three copies:               *)
(*   "cerebras"  chatWithCerebrasWebSearch   (src/src/app/admin/layout.tsx) *)
(*   "streaming" chatWithWebSearchStreaming  (src/unnamed/part_000)         *)
(*   "gmi"       testGMIStreaming            (src/unnamed/part_001)         *)
(* One invocation of one copy is one behaviour.  A step is a stretch of    *)
(* synchronous code between two suspension points (await) or loop heads.   *)
(***************************************************************************)
EXTENDS Integers, Sequences, FiniteSets, TLC

\* ------------------------------------------------------------------ bounds
\* Largest number of tool invocations the provider puts in one assistant turn.
MaxCallsPerTurn == 3
\* Largest value the caller passes for options.maxIterations / maxToolCalls.
MaxOpt == 2

\* ------------------------------------------------------- program constants
DefaultMaxIterations == 4
DefaultMaxToolCalls == 2
StreamMaxIterations == 5
StreamMaxToolCalls == 3
GmiMaxIterations == 5
GmiMaxToolCalls == 3

\* ------------------------------------------------------------ JS values
\* undefined / null of the source.
NULL == "<undefined>"
\* JavaScript truthiness of a string-or-undefined value: '' and undefined are falsy.
Truthy(v) == v # NULL /\ v # ""
\* An option the caller left out (options?.x is undefined).
Absent == -1
\* options?.x || d : undefined and 0 both fall through to the default.
OrDefault(v, d) == IF v = Absent \/ v = 0 THEN d ELSE v

Variants == {"cerebras", "streaming", "gmi"}
Streams(v) == v \in {"streaming", "gmi"}

\* ------------------------------------------------------------ tool calls
WebSearchName == "webSearch"
OtherName == "calculator"
GoodArgs == "{\"query\":\"q\"}"
BadArgs == "{\"query\":"
\* JSON.parse(text) returns for well-formed text and throws SyntaxError otherwise.
JSONParses(text) == text = GoodArgs

NoId == <<>>
\* The provider's id of the p-th invocation of the turn received in iteration it.
CallId(it, p) == <<it, p>>

\* Shapes of one invocation as the provider may send it:
\*   "ws"    webSearch with well-formed arguments
\*   "bad"   webSearch whose argument text is not JSON
\*   "other" a tool name other than webSearch
\*   "noid"  an accumulated entry that never received an id (streaming only)
ToolCall(kind, it, p) ==
  [id |-> IF kind = "noid" THEN NoId ELSE CallId(it, p),
   name |-> IF kind = "other" THEN OtherName ELSE WebSearchName,
   arguments |-> IF kind = "bad" THEN BadArgs ELSE GoodArgs]

ToolCalls(kinds, it) == [p \in 1..Len(kinds) |-> ToolCall(kinds[p], it, p)]

Uniform(kind, n) == [p \in 1..n |-> kind]

\* The provider's replies tried in each iteration: content x invocation kinds.
ReplyShapes(v) ==
  {[content |-> c, kinds |-> <<>>] :
      c \in (IF v = "cerebras" THEN {NULL, "", "answer"} ELSE {"", "answer"})}
  \cup {[content |-> IF v = "cerebras" THEN NULL ELSE "", kinds |-> Uniform("ws", n)] :
          n \in 1..MaxCallsPerTurn}
  \cup {[content |-> "thinking", kinds |-> <<"ws">>],
        [content |-> IF v = "cerebras" THEN NULL ELSE "", kinds |-> <<"other">>],
        [content |-> IF v = "cerebras" THEN NULL ELSE "", kinds |-> <<"other", "ws">>],
        [content |-> IF v = "cerebras" THEN NULL ELSE "", kinds |-> <<"bad">>],
        [content |-> IF v = "cerebras" THEN NULL ELSE "", kinds |-> <<"ws", "bad">>],
        [content |-> IF v = "cerebras" THEN NULL ELSE "", kinds |-> <<"bad", "ws">>]}
  \cup (IF Streams(v)
        THEN {[content |-> "", kinds |-> <<"noid">>],
              [content |-> "answer", kinds |-> <<"noid">>],
              [content |-> "", kinds |-> <<"noid", "ws">>]}
        ELSE {})

\* ------------------------------------------------------------ transcript
Msg(role, content, calls, callId) ==
  [role |-> role, content |-> content, tool_calls |-> calls, tool_call_id |-> callId]

SystemPrompt == Msg("system", "policy", <<>>, NoId)
UserQuestion == Msg("user", "question", <<>>, NoId)
\* layout.tsx 213-216 and 255-258: the two corrective system turns.
AnswerNowDirective == Msg("system", "answer-now", <<>>, NoId)
LimitReachedDirective == Msg("system", "limit-reached", <<>>, NoId)
\* A tool-result turn that leaves the invocation id out.
ToolResultNoId(id) == Msg("tool", "results", <<>>, NoId)

\* layout.tsx 297-301: `{role: 'tool', content, tool_call_id: toolCall.id}`
ToolResult(id) == Msg("tool", "results", <<>>, id)

\* `tc => tc.id`: an empty id is falsy.
HasId(tc) == tc.id # NoId

\* part_000 224, part_001 214: `tool_calls.filter((tc) => tc.id)`
DropEmptyIds(calls) == SelectSeq(calls, HasId)

\* `m.tool_calls && m.tool_calls.length > 0`
HasToolCalls(m) == Len(m.tool_calls) > 0

\* ---------------------------------------------------------------- errors
ErrEmpty == "Model finished without providing content"
ErrMaxIterations(v) ==
  IF v = "gmi" THEN "Reached max iterations"
  ELSE "Reached max iterations without completion"
ErrProvider == "provider request failed"
ErrSearch == "search request failed"
ErrSyntax == "SyntaxError"

VARIABLES
  input,            \* the caller's `messages` array (cerebras) / the question
  variant,          \* which copy of the loop runs
  options,          \* the caller's options (cerebras only)
  maxIterations, maxToolCalls,
  iteration, toolCallsCount,
  messages,         \* conversationMessages / messages
  assistantMessage, \* the assistant turn being processed
  toolIdx,          \* position of the for-of loop over assistantMessage.tool_calls
  pc,
  result,           \* how the invocation ended
  requests,         \* chat-completion requests sent to the provider, in order
  searches          \* executeWebSearch calls made, in order (the invocation ids)

loopVars == <<input, variant, options, maxIterations, maxToolCalls, iteration, toolCallsCount,
              messages, assistantMessage, toolIdx, pc, result, requests, searches>>

NoMessage == Msg("none", NULL, <<>>, NoId)
NoResult == [kind |-> "running", error |-> NULL, content |-> NULL, toolCalls |-> 0]
Completed(content, n) == [kind |-> "completed", error |-> NULL, content |-> content, toolCalls |-> n]
Failed(err) == [kind |-> "failed", error |-> err, content |-> NULL, toolCalls |-> 0]
\* A bare `return;`: the promise resolves with undefined.
ReturnedNothing == [kind |-> "returned", error |-> NULL, content |-> NULL, toolCalls |-> 0]

OptionValues == {Absent} \cup 0..MaxOpt

LoopInit ==
  /\ variant \in Variants
  /\ options \in [maxIterations : OptionValues, maxToolCalls : OptionValues]
  /\ (variant # "cerebras" => options = [maxIterations |-> Absent, maxToolCalls |-> Absent])
  /\ maxIterations = (CASE variant = "cerebras" -> OrDefault(options.maxIterations, DefaultMaxIterations)
                        [] variant = "streaming" -> StreamMaxIterations
                        [] variant = "gmi" -> GmiMaxIterations)
  /\ maxToolCalls = (CASE variant = "cerebras" -> OrDefault(options.maxToolCalls, DefaultMaxToolCalls)
                       [] variant = "streaming" -> StreamMaxToolCalls
                       [] variant = "gmi" -> GmiMaxToolCalls)
  /\ iteration = 0
  /\ toolCallsCount = 0
  /\ input = <<UserQuestion>>
  /\ messages = <<SystemPrompt>> \o input
  /\ assistantMessage = NoMessage
  /\ toolIdx = 0
  /\ pc = "while"
  /\ result = NoResult
  /\ requests = <<>>
  /\ searches = <<>>

\* ------------------------------------------------------------- loop head
\* The offer test with an off-by-one: tools are still offered at the cap.
shouldOfferToolsInclusive(count, cap) == count <= cap

\* `const shouldOfferTools = toolCallsCount < maxToolCalls`
shouldOfferTools(count, cap) == count < cap

\* The directive pushed in every iteration after the first, tools offered or not.
InjectsDirectiveAlways(offer, it) == it > 1

\* layout.tsx 212: the directive is pushed when tools are withheld after iteration 1.
InjectsDirective(offer, it) == ~offer /\ it > 1

\* A request that is built before the last turn of the transcript is in it.
RequestWithoutLast(offer, msgs, it, count) ==
  [tools |-> offer, messages |-> Len(msgs) - 1, iteration |-> it, toolCallsCount |-> count]

\* The request body: `tools` when offered, and the transcript as it stands.
Request(offer, msgs, it, count) ==
  [tools |-> offer, messages |-> Len(msgs), iteration |-> it, toolCallsCount |-> count]

\* The while test that never fails: `while (true)`.
WhileTestAlways(it, max) == TRUE

\* The while test with an off-by-one: one pass too many.
WhileTestInclusive(it, max) == it <= max

\* `while (iteration < maxIterations)`
WhileTest(it, max) == it < max

\* One pass from the while test to the awaited provider call.
SendRequest ==
  /\ pc = "while"
  /\ WhileTest(iteration, maxIterations)
  /\ LET it == iteration + 1
         offer == shouldOfferTools(toolCallsCount, maxToolCalls)
         msgs == IF variant = "cerebras" /\ InjectsDirective(offer, it)
                 THEN Append(messages, AnswerNowDirective)
                 ELSE messages
     IN /\ iteration' = it
        /\ messages' = msgs
        /\ requests' = Append(requests, Request(offer, msgs, it, toolCallsCount))
  /\ pc' = "await_completion"
  /\ UNCHANGED <<input, variant, options, maxIterations, maxToolCalls, toolCallsCount,
                 assistantMessage, toolIdx, result, searches>>

\* part_000 46-56: GMI_API_KEY or SERPER_API_KEY is not set (or is the
\* placeholder): a warning is logged and the function returns before the loop.
ReturnWithoutKey ==
  /\ variant = "streaming"
  /\ pc = "while"
  /\ iteration = 0
  /\ result' = ReturnedNothing
  /\ pc' = "done"
  /\ UNCHANGED <<input, variant, options, maxIterations, maxToolCalls, iteration, toolCallsCount,
                 messages, assistantMessage, toolIdx, requests, searches>>

\* The while test fails: the throw after the loop.
ExitLoop ==
  /\ pc = "while"
  /\ ~WhileTest(iteration, maxIterations)
  /\ result' = Failed(ErrMaxIterations(variant))
  /\ pc' = "done"
  /\ UNCHANGED <<input, variant, options, maxIterations, maxToolCalls, iteration, toolCallsCount,
                 messages, assistantMessage, toolIdx, requests, searches>>

\* ------------------------------------------------------ provider response
\* The assistant turn built from the provider's reply.  The streaming copies drop
\* the accumulated entries without id before the turn is pushed.
AssistantTurn(v, reply, it) ==
  LET calls == ToolCalls(reply.kinds, it)
  IN Msg("assistant", reply.content, IF Streams(v) THEN DropEmptyIds(calls) ELSE calls, NoId)

\* A push that leaves out a turn with neither text nor tool invocations.
PushAssistantUnlessEmpty(msgs, m) ==
  IF HasToolCalls(m) \/ Truthy(m.content) THEN Append(msgs, m) ELSE msgs

\* layout.tsx 243, part_000 230: `messages.push(assistantMessage)`
PushAssistant(msgs, m) == Append(msgs, m)

\* No turn is refused as a whole.
CapReachedNever(count, cap) == FALSE

\* layout.tsx 251: the whole turn is refused once the cap is reached.
CapReached(count, cap) == count >= cap

\* `toolCallCount = tool_calls.length` in place of `+=`: every turn starts anew.
CountTurnAssign(count, calls) == Len(calls)

\* part_000 237, part_001 233: the streaming copies count the turn's invocations at once.
CountTurn(count, calls) == count + Len(calls)

\* The provider call throws, answers non-OK or without body, or the read fails.
ProviderFails ==
  /\ pc = "await_completion"
  /\ result' = Failed(ErrProvider)
  /\ pc' = "done"
  /\ UNCHANGED <<input, variant, options, maxIterations, maxToolCalls, iteration, toolCallsCount,
                 messages, assistantMessage, toolIdx, requests, searches>>

\* The reply carries tool invocations (cerebras): refused at the cap, else executed.
ReceiveToolCalls ==
  /\ pc = "await_completion"
  /\ variant = "cerebras"
  /\ \E reply \in ReplyShapes(variant) :
       LET m == AssistantTurn(variant, reply, iteration)
       IN /\ HasToolCalls(m)
          /\ assistantMessage' = m
          /\ IF CapReached(toolCallsCount, maxToolCalls)
             THEN /\ messages' = Append(PushAssistant(messages, m), LimitReachedDirective)
                  /\ pc' = "while"
                  /\ toolIdx' = 0
             ELSE /\ messages' = PushAssistant(messages, m)
                  /\ pc' = "for"
                  /\ toolIdx' = 1
  /\ UNCHANGED <<input, variant, options, maxIterations, maxToolCalls, iteration, toolCallsCount,
                 result, requests, searches>>

\* The reply carries tool invocations (streaming copies): all are counted, then executed.
ReceiveToolCallsStreaming ==
  /\ pc = "await_completion"
  /\ Streams(variant)
  /\ \E reply \in ReplyShapes(variant) :
       LET m == AssistantTurn(variant, reply, iteration)
       IN /\ HasToolCalls(m)
          /\ assistantMessage' = m
          /\ messages' = PushAssistant(messages, m)
          /\ toolCallsCount' = CountTurn(toolCallsCount, m.tool_calls)
  /\ pc' = "for"
  /\ toolIdx' = 1
  /\ UNCHANGED <<input, variant, options, maxIterations, maxToolCalls, iteration,
                 result, requests, searches>>

\* The content test without the tool-call branch before it.
ReturnsContentDespiteCalls(m) == Truthy(m.content)

\* `if (assistantMessage.content)` once the turn has no tool invocations.
ReturnsContent(m) == ~HasToolCalls(m) /\ Truthy(m.content)

\* No tool invocations and text: the final answer is returned.
ReceiveContent ==
  /\ pc = "await_completion"
  /\ \E reply \in ReplyShapes(variant) :
       LET m == AssistantTurn(variant, reply, iteration)
       IN /\ ReturnsContent(m)
          /\ assistantMessage' = m
          /\ messages' = PushAssistant(messages, m)
          /\ result' = IF variant = "gmi"
                       THEN Completed(NULL, 0)
                       ELSE Completed(m.content, toolCallsCount)
  /\ pc' = "done"
  /\ UNCHANGED <<input, variant, options, maxIterations, maxToolCalls, iteration, toolCallsCount,
                 toolIdx, requests, searches>>

\* The final throw reached without the content test before it.
ThrowsEmptyDespiteContent(m) == ~HasToolCalls(m)

\* `throw new Error('Model finished without providing content')`
ThrowsEmpty(m) == ~HasToolCalls(m) /\ ~Truthy(m.content)

\* Neither tool invocations nor text.
ReceiveEmpty ==
  /\ pc = "await_completion"
  /\ \E reply \in ReplyShapes(variant) :
       LET m == AssistantTurn(variant, reply, iteration)
       IN /\ ThrowsEmpty(m)
          /\ assistantMessage' = m
          /\ messages' = PushAssistant(messages, m)
  /\ result' = Failed(ErrEmpty)
  /\ pc' = "done"
  /\ UNCHANGED <<input, variant, options, maxIterations, maxToolCalls, iteration, toolCallsCount,
                 toolIdx, requests, searches>>

\* ------------------------------------------------------- tool execution
\* A loop that takes every invocation for a search.
IsWebSearchAlways(tc) == TRUE

\* `toolCall.function.name === 'webSearch'`
IsWebSearch(tc) == tc.name = WebSearchName

\* The for-of loop without its check before each invocation.
SkipsAtCapNever(v, count, cap) == FALSE

\* layout.tsx 268: the check before each webSearch invocation.
SkipsAtCap(v, count, cap) == v = "cerebras" /\ count >= cap

\* The for-of loop is exhausted: `continue` to the next iteration.
ForDone ==
  /\ pc = "for"
  /\ toolIdx > Len(assistantMessage.tool_calls)
  /\ pc' = "while"
  /\ toolIdx' = 0
  /\ UNCHANGED <<input, variant, options, maxIterations, maxToolCalls, iteration, toolCallsCount,
                 messages, assistantMessage, result, requests, searches>>

\* An invocation of another tool is passed over.
ForSkipOther ==
  /\ pc = "for"
  /\ toolIdx <= Len(assistantMessage.tool_calls)
  /\ ~IsWebSearch(assistantMessage.tool_calls[toolIdx])
  /\ toolIdx' = toolIdx + 1
  /\ UNCHANGED <<input, variant, options, maxIterations, maxToolCalls, iteration, toolCallsCount,
                 messages, assistantMessage, pc, result, requests, searches>>

\* layout.tsx 268-271: `break` out of the for-of loop at the cap.
ForBreak ==
  /\ pc = "for"
  /\ toolIdx <= Len(assistantMessage.tool_calls)
  /\ IsWebSearch(assistantMessage.tool_calls[toolIdx])
  /\ SkipsAtCap(variant, toolCallsCount, maxToolCalls)
  /\ pc' = "while"
  /\ toolIdx' = 0
  /\ UNCHANGED <<input, variant, options, maxIterations, maxToolCalls, iteration, toolCallsCount,
                 messages, assistantMessage, result, requests, searches>>

\* The counter after the invocation is taken up: cerebras counts here, one by one.
CountCall(v, count) == IF v = "cerebras" THEN count + 1 ELSE count

\* A webSearch invocation is taken up: its arguments parse and the search is sent.
ForExecute ==
  /\ pc = "for"
  /\ toolIdx <= Len(assistantMessage.tool_calls)
  /\ LET tc == assistantMessage.tool_calls[toolIdx]
     IN /\ IsWebSearch(tc)
        /\ ~SkipsAtCap(variant, toolCallsCount, maxToolCalls)
        /\ JSONParses(tc.arguments)
        /\ searches' = Append(searches, tc.id)
  /\ toolCallsCount' = CountCall(variant, toolCallsCount)
  /\ pc' = "await_search"
  /\ UNCHANGED <<input, variant, options, maxIterations, maxToolCalls, iteration,
                 messages, assistantMessage, toolIdx, result, requests>>

\* A webSearch invocation is taken up and JSON.parse throws: nothing catches it.
ForParseThrows ==
  /\ pc = "for"
  /\ toolIdx <= Len(assistantMessage.tool_calls)
  /\ LET tc == assistantMessage.tool_calls[toolIdx]
     IN /\ IsWebSearch(tc)
        /\ ~SkipsAtCap(variant, toolCallsCount, maxToolCalls)
        /\ ~JSONParses(tc.arguments)
  /\ toolCallsCount' = CountCall(variant, toolCallsCount)
  /\ result' = Failed(ErrSyntax)
  /\ pc' = "done"
  /\ UNCHANGED <<input, variant, options, maxIterations, maxToolCalls, iteration,
                 messages, assistantMessage, toolIdx, requests, searches>>

\* executeWebSearch returns: the tool-result turn is pushed.
SearchReturns ==
  /\ pc = "await_search"
  /\ messages' = Append(messages, ToolResult(assistantMessage.tool_calls[toolIdx].id))
  /\ toolIdx' = toolIdx + 1
  /\ pc' = "for"
  /\ UNCHANGED <<input, variant, options, maxIterations, maxToolCalls, iteration, toolCallsCount,
                 assistantMessage, result, requests, searches>>

\* executeWebSearch throws (fetch rejects, non-OK status, unreadable body).
SearchFails ==
  /\ pc = "await_search"
  /\ result' = Failed(ErrSearch)
  /\ pc' = "done"
  /\ UNCHANGED <<input, variant, options, maxIterations, maxToolCalls, iteration, toolCallsCount,
                 messages, assistantMessage, toolIdx, requests, searches>>

\* ==================================================== one streamed turn
\* The read loop of the streaming copies (part_000 133-227, part_001 122-217):
\* the response body arrives in chunks, is cut into lines, each data line is
\* parsed and folded into assistantMessage.  Text is a sequence of atoms:
\*   <<"nl",0,0>>     the newline character
\*   <<"sp",0,0>>     white space other than newline
\*   <<"data",0,0>>   the six characters 'data: '
\*   <<"json",e,h>>   half h (1 or 2) of the JSON text of event e of EventTable
\*   <<"DONE",0,0>>   the text '[DONE]'
\*   <<"junk",0,0>>   any other text (a comment, a keep-alive, broken JSON)
\* Strings built by the accumulator (content, id, name, arguments) are sequences
\* of pieces; '' is <<>> and += is \o.

\* ------------------------------------------------------------------ bounds
\* Largest number of lines in one response body.
MaxLines == 3

NL == <<"nl", 0, 0>>
SP == <<"sp", 0, 0>>
DataPrefix == <<"data", 0, 0>>
DoneText == <<"DONE", 0, 0>>
Junk == <<"junk", 0, 0>>
JsonHalf(e, h) == <<"json", e, h>>

\* One entry of delta.tool_calls.
CallDelta(index, id, name, arguments) ==
  [index |-> index, id |-> id, name |-> name, arguments |-> arguments]

\* The parsed JSON of one event: choices[0].delta with content and tool_calls.
Delta(content, calls) == [content |-> content, tool_calls |-> calls, throws |-> FALSE]

\* An event whose delta has content and `tool_calls: [null]`: the content is
\* added (part_000 178), then `toolCallDelta.index` throws a TypeError, which the
\* catch of part_000 211 swallows; no entry of tool_calls has been applied.
ThrowingDelta(content) == [content |-> content, tool_calls |-> <<>>, throws |-> TRUE]

\* The events the provider may stream: two text increments; the first
\* fragment of invocation 0; an event with the first fragment of invocation 1
\* and a fragment of invocation 0 that has an id of its own; an event with
\* text and a later fragment of invocation 1, which has no id; and an event
\* with text whose tool_calls cannot be walked.
EventTable ==
  << Delta(<<"Hel">>, <<>>),
     Delta(<<"lo">>, <<>>),
     Delta(<<>>, <<CallDelta(0, <<"call_a">>, <<"webSearch">>, <<"{\"query\":">>)>>),
     Delta(<<>>, <<CallDelta(1, <<"call_b">>, <<"calc">>, <<"[]">>),
                   CallDelta(0, <<"call_c">>, <<>>, <<"\"q\"}">>)>>),
     Delta(<<"!">>, <<CallDelta(1, <<>>, <<"ulate">>, <<" ">>)>>),
     ThrowingDelta(<<"?">>) >>

Events == 1..Len(EventTable)

\* The line that carries event e, without its newline.
EventLine(e) == <<DataPrefix, JsonHalf(e, 1), JsonHalf(e, 2)>>

\* The lines a response body is made of: events, the blank separator, the end
\* sentinel, a line that is no data line, and a data line whose JSON is cut off.
LineShapes ==
  {EventLine(e) : e \in Events}
  \cup { <<>>, <<DataPrefix, DoneText>>, <<Junk>>, <<DataPrefix, JsonHalf(1, 1)>> }

\* s[1] \n s[2] \n ... s[n], each line followed by a newline.
RECURSIVE JoinLines(_)
JoinLines(ls) ==
  IF ls = <<>> THEN <<>> ELSE Head(ls) \o <<NL>> \o JoinLines(Tail(ls))

\* String.prototype.split('\n'): k newlines give k + 1 pieces.
RECURSIVE Split(_)
Split(text) ==
  IF \E i \in 1..Len(text) : text[i] = NL
  THEN LET i == CHOOSE k \in 1..Len(text) :
                  text[k] = NL /\ \A j \in 1..(k - 1) : text[j] # NL
       IN <<SubSeq(text, 1, i - 1)>> \o Split(SubSeq(text, i + 1, Len(text)))
  ELSE <<text>>

\* String.prototype.trim
RECURSIVE Trim(_)
Trim(text) ==
  IF text = <<>> THEN <<>>
  ELSE IF Head(text) = SP THEN Trim(Tail(text))
  ELSE IF text[Len(text)] = SP THEN Trim(SubSeq(text, 1, Len(text) - 1))
  ELSE text

\* JSON.parse(text): the event whose complete JSON text this is (white space
\* around it is allowed), or 0 when it throws.
ParseJSON(text) ==
  LET t == Trim(text)
  IN IF Len(t) = 2 /\ \E e \in Events : t = <<JsonHalf(e, 1), JsonHalf(e, 2)>>
     THEN t[1][2]
     ELSE 0

\* A read loop that forgets the unfinished line of a chunk.
LastLineDropped(lines) == <<>>

\* `buffer = lines.pop() || ''`: the piece behind the last newline.
LastLine(lines) == lines[Len(lines)]

\* `lines` after the pop: the pieces that ended with a newline.
WholeLines(lines) == SubSeq(lines, 1, Len(lines) - 1)

\* The lines the read loop passes over (part_000 159-160).
IsSkipped(line) ==
  \/ Trim(line) = <<>>
  \/ Trim(line) = <<DataPrefix, DoneText>>
  \/ Head(line) # DataPrefix

\* What one line contributes (part_000 159-167): the delta of a data line whose
\* payload parses, else nothing.
DecodeLine(line) ==
  IF IsSkipped(line) THEN <<>>
  ELSE LET e == ParseJSON(Tail(line))
       IN IF e = 0 THEN <<>> ELSE <<EventTable[e]>>

\* The deltas of a sequence of lines, in order.
RECURSIVE DecodeLines(_)
DecodeLines(ls) ==
  IF ls = <<>> THEN <<>> ELSE DecodeLine(Head(ls)) \o DecodeLines(Tail(ls))

\* ---------------------------------------------------------- accumulator
\* An empty array slot, and the entry a first fragment allocates.
Hole == [hole |-> TRUE, id |-> <<>>, name |-> <<>>, arguments |-> <<>>]
NewCall == [hole |-> FALSE, id |-> <<>>, name |-> <<>>, arguments |-> <<>>]

\* arr[index], undefined past the end and in a hole (index counts from 0).
Slot(arr, index) == IF index + 1 <= Len(arr) THEN arr[index + 1] ELSE Hole

\* arr[index] = v, which lengthens the array with holes when needed.
SetSlot(arr, index, v) ==
  [p \in 1..(IF index + 1 > Len(arr) THEN index + 1 ELSE Len(arr)) |->
     IF p = index + 1 THEN v ELSE IF p <= Len(arr) THEN arr[p] ELSE Hole]

\* `content = delta.content` in place of `+=`.
AddContentAssign(content, inc) == IF inc # <<>> THEN inc ELSE content

\* `content += delta.content`
AddContent(content, inc) == content \o inc

\* `= ...` in place of `+= ...`.
AddTextAssign(text, inc) == IF inc # <<>> THEN inc ELSE text

\* `toolCall.function.name += ...` / `toolCall.function.arguments += ...`
AddText(text, inc) == text \o inc

\* `if (toolCallDelta.id) toolCall.id = toolCallDelta.id`
SetId(id, inc) == IF inc # <<>> THEN inc ELSE id

\* part_000 183-209: one entry of delta.tool_calls folded into the array.
ApplyCallDelta(arr, d) ==
  LET cur == IF Slot(arr, d.index).hole THEN NewCall ELSE Slot(arr, d.index)
  IN SetSlot(arr, d.index,
             [hole |-> FALSE,
              id |-> SetId(cur.id, d.id),
              name |-> AddText(cur.name, d.name),
              arguments |-> AddText(cur.arguments, d.arguments)])

RECURSIVE ApplyCallDeltas(_, _)
ApplyCallDeltas(arr, ds) ==
  IF ds = <<>> THEN arr ELSE ApplyCallDeltas(ApplyCallDelta(arr, Head(ds)), Tail(ds))

\* part_000 169-211: one delta folded into assistantMessage.
ApplyDelta(msg, delta) ==
  [content |-> AddContent(msg.content, delta.content),
   tool_calls |-> ApplyCallDeltas(msg.tool_calls, delta.tool_calls)]

RECURSIVE ApplyDeltas(_, _)
ApplyDeltas(msg, ds) ==
  IF ds = <<>> THEN msg ELSE ApplyDeltas(ApplyDelta(msg, Head(ds)), Tail(ds))

\* `{ role: 'assistant', content: '', tool_calls: [] }`
EmptyAccum == [content |-> <<>>, tool_calls |-> <<>>]

\* A filter that keeps the entries without id.
KeepsCallWithoutId(tc) == ~tc.hole

\* `(tc) => tc.id` over the array: holes are not visited, '' is falsy.
KeepsCall(tc) == ~tc.hole /\ tc.id # <<>>

\* part_000 224-227: the clean-up before the turn is pushed.
Finalize(msg) ==
  LET kept == SelectSeq(msg.tool_calls, KeepsCall)
  IN [content |-> msg.content, tool_calls |-> kept, has_tool_calls |-> Len(kept) # 0]

\* part_000 233, 258, 271: what is done with the pushed turn.
BranchOf(t) ==
  IF t.has_tool_calls /\ Len(t.tool_calls) > 0 THEN "for"
  ELSE IF t.content # <<>> THEN "completed"
  ELSE "empty"

\* `toolCall.function.name === 'webSearch'` on the accumulated name.
NamesWebSearch(tc) == tc.name = <<"webSearch">>

\* The argument texts JSON.parse accepts.
ValidArguments == { <<"{\"query\":", "\"q\"}">>, <<"[]">>, <<"[]", " ">> }

\* A loop that stays on the invocation it has handled.
NextCallSame(i) == i

\* The for-of loop goes on with the next invocation.
NextCall(i) == i + 1

VARIABLES
  body,        \* the response body as the provider sent it
  wire,        \* the part of the body not yet read
  buffer,      \* `buffer`: the unfinished last line
  accum,       \* `assistantMessage` while the stream is read
  fragments,   \* the deltas decoded so far, in order
  turn,        \* the finalized assistant turn, once pushed
  callIdx,     \* position of the for-of loop over the turn's tool_calls
  parsed,      \* the positions whose arguments JSON.parse was called on, in order
  spc          \* where the read loop stands

streamVars == <<body, wire, buffer, accum, fragments, turn, callIdx, parsed, spc>>

NoTurn == [content |-> <<>>, tool_calls |-> <<>>, has_tool_calls |-> FALSE]

\* No stream is being read.
StreamIdle ==
  /\ body = <<>>
  /\ wire = <<>>
  /\ buffer = <<>>
  /\ accum = EmptyAccum
  /\ fragments = <<>>
  /\ turn = NoTurn
  /\ callIdx = 0
  /\ parsed = <<>>
  /\ spc = "idle"

\* The bodies tried: up to MaxLines lines, the last with or without its newline.
Bodies ==
  UNION {{JoinLines(ls), SubSeq(JoinLines(ls), 1, Len(JoinLines(ls)) - 1)} :
           ls \in UNION {[1..n -> LineShapes] : n \in 0..MaxLines}}

\* The request has been sent; the response is awaited (part_000 115).
InitStream ==
  /\ body \in Bodies
  /\ wire = body
  /\ buffer = <<>>
  /\ accum = EmptyAccum
  /\ fragments = <<>>
  /\ turn = NoTurn
  /\ callIdx = 0
  /\ parsed = <<>>
  /\ spc = "await_response"

\* `!response.ok` or `!response.body`: the throw of part_000 124-131.
ResponseRejected ==
  /\ spc = "await_response"
  /\ spc' = "failed"
  /\ UNCHANGED <<body, wire, buffer, accum, fragments, turn, callIdx, parsed>>

\* The response is OK and has a body: the reader is taken.
ResponseOpened ==
  /\ spc = "await_response"
  /\ spc' = "reading"
  /\ UNCHANGED <<body, wire, buffer, accum, fragments, turn, callIdx, parsed>>

\* `reader.read()` rejects: the connection broke. The throw leaves the loop
\* body, whose locals (reader, buffer, assistantMessage) are lost.
ReadFails ==
  /\ spc = "reading"
  /\ spc' = "failed"
  /\ wire' = <<>>
  /\ buffer' = <<>>
  /\ accum' = EmptyAccum
  /\ UNCHANGED <<body, fragments, turn, callIdx, parsed>>

\* `reader.read()` yields a chunk of n atoms (part_000 150-216).
ReadChunk ==
  /\ spc = "reading"
  /\ \E n \in 1..Len(wire) :
       LET lines == Split(buffer \o SubSeq(wire, 1, n))
           deltas == DecodeLines(WholeLines(lines))
       IN /\ wire' = SubSeq(wire, n + 1, Len(wire))
          /\ buffer' = LastLine(lines)
          /\ accum' = ApplyDeltas(accum, deltas)
          /\ fragments' = fragments \o deltas
  /\ UNCHANGED <<body, turn, callIdx, parsed, spc>>

\* `reader.read()` yields done: the loop is left and the turn is cleaned up and
\* pushed (part_000 152, 223-230).
ReadDone ==
  /\ spc = "reading"
  /\ wire = <<>>
  /\ turn' = Finalize(accum)
  /\ spc' = "pushed"
  /\ UNCHANGED <<body, wire, buffer, accum, fragments, callIdx, parsed>>

\* part_000 233-276: the tool-call branch, the return of the content, or the
\* throw for an empty turn.
TurnDispatch ==
  /\ spc = "pushed"
  /\ spc' = BranchOf(turn)
  /\ callIdx' = 1
  /\ UNCHANGED <<body, wire, buffer, accum, fragments, turn, parsed>>

\* part_000 241: an invocation of another tool is passed over.
TurnSkipCall ==
  /\ spc = "for"
  /\ callIdx <= Len(turn.tool_calls)
  /\ ~NamesWebSearch(turn.tool_calls[callIdx])
  /\ callIdx' = NextCall(callIdx)
  /\ UNCHANGED <<body, wire, buffer, accum, fragments, turn, parsed, spc>>

\* part_000 242-252: JSON.parse of the arguments, then the search and the
\* tool-result turn; a SyntaxError leaves the function.
TurnParseCall ==
  /\ spc = "for"
  /\ callIdx <= Len(turn.tool_calls)
  /\ NamesWebSearch(turn.tool_calls[callIdx])
  /\ parsed' = Append(parsed, callIdx)
  /\ IF turn.tool_calls[callIdx].arguments \in ValidArguments
     THEN callIdx' = NextCall(callIdx) /\ spc' = "for"
     ELSE callIdx' = callIdx /\ spc' = "threw"
  /\ UNCHANGED <<body, wire, buffer, accum, fragments, turn>>

\* part_000 255: `continue` behind the for-of loop.
TurnCallsDone ==
  /\ spc = "for"
  /\ callIdx > Len(turn.tool_calls)
  /\ spc' = "continue"
  /\ UNCHANGED <<body, wire, buffer, accum, fragments, turn, callIdx, parsed>>

\* ======================================================= executeWebSearch
\* One webSearch invocation, from its parsed arguments to its tool-result turn
\* (layout.tsx 62-91, 276-302; part_000 21-43, 242-252; part_001 26-48, 237-247).
MaxOrganic == 3
NumMargin == 3

\* `minimum: 2, maximum: 10` of the numResults parameter of the tool schema.
SchemaMinimum == 2
SchemaMaximum == 10
\* `args.numResults || 10`, `args.numResults || 5`, and the fixed `num: 5`.
CerebrasDefaultNum == 10
GmiDefaultNum == 5
StreamFixedNum == 5

\* args.numResults as the model wrote it: left out, or a number.
NoNumResults == [given |-> FALSE, value |-> 0]
NumResults(n) == [given |-> TRUE, value |-> n]
NumResultsTried ==
  {NoNumResults}
  \cup {NumResults(n) : n \in (SchemaMinimum - NumMargin)..(SchemaMaximum + NumMargin)}

\* `args.numResults || d`: undefined and 0 fall through to the default.
NumOrDefault(a, d) == IF ~a.given \/ a.value = 0 THEN d ELSE a.value

\* The count each copy hands to the search service for these arguments.
NumSent(v, a) ==
  CASE v = "cerebras" -> NumOrDefault(a, CerebrasDefaultNum)
    [] v = "gmi" -> NumOrDefault(a, GmiDefaultNum)
    [] v = "streaming" -> StreamFixedNum

\* An entry of the upstream `organic` list: more fields than the three kept.
Organic(k) == [title |-> <<"title", k>>, snippet |-> <<"snippet", k>>,
               link |-> <<"link", k>>, position |-> k]
OrganicLists == UNION {[1..n -> {Organic(1), Organic(2)}] : n \in 0..MaxOrganic}

\* The body of the search service's response: `organic` may be missing.
SearchData == [hasOrganic : BOOLEAN, organic : OrganicLists]
NoData == [hasOrganic |-> FALSE, organic |-> <<>>]
SearchBodies == {d \in SearchData : ~d.hasOrganic => d = NoData}

\* Array.prototype.slice(0, n): a negative n counts from the end.
Slice(list, n) ==
  IF n >= 0
  THEN SubSeq(list, 1, IF n < Len(list) THEN n ELSE Len(list))
  ELSE SubSeq(list, 1, IF Len(list) + n > 0 THEN Len(list) + n ELSE 0)

\* `(result) => ({title: result.title, snippet: result.snippet, link: result.link})`
Pick(r) == [title |-> r.title, snippet |-> r.snippet, link |-> r.link]

\* `data.organic?.slice(0, numResults).map(...) || []`
Normalize(data, n) ==
  IF data.hasOrganic
  THEN [k \in 1..Len(Slice(data.organic, n)) |-> Pick(Slice(data.organic, n)[k])]
  ELSE <<>>

VARIABLES
  copy,           \* which file's executeWebSearch runs
  args,           \* args.numResults of the invocation
  sent,           \* the `num` of the request to the search service, once sent
  status,         \* `response.ok` of the search service's answer, once it is there
  data,           \* the parsed response body
  searchResults,  \* `searchResults.organic`
  toolResult,     \* the content of the tool-result turn
  qpc

searchVars == <<copy, args, sent, status, data, searchResults, toolResult, qpc>>

NotSent == SchemaMinimum - NumMargin - 1

\* No search is running.
SearchIdle ==
  /\ copy = "streaming"
  /\ args = NoNumResults
  /\ sent = NotSent
  /\ status = "none"
  /\ data = NoData
  /\ searchResults = <<>>
  /\ toolResult = <<>>
  /\ qpc = "idle"

\* JSON.parse(toolCall.function.arguments) has returned.
InitSearch ==
  /\ copy \in Variants
  /\ args \in NumResultsTried
  /\ sent = NotSent
  /\ status = "none"
  /\ data = NoData
  /\ searchResults = <<>>
  /\ toolResult = <<>>
  /\ qpc = "parsed"

\* executeWebSearch is called and posts {q, num} (layout.tsx 280, 66-73).
CallExecuteWebSearch ==
  /\ qpc = "parsed"
  /\ sent' = NumSent(copy, args)
  /\ qpc' = "await_fetch"
  /\ UNCHANGED <<copy, args, status, data, searchResults, toolResult>>

\* fetch rejects, or response.json() does: executeWebSearch throws.
FetchRejects ==
  /\ qpc = "await_fetch"
  /\ qpc' = "failed_fetch"
  /\ UNCHANGED <<copy, args, sent, status, data, searchResults, toolResult>>

\* layout.tsx 75: only the executeWebSearch of layout.tsx has `if (!response.ok)`.
TestsStatus(c) == c = "cerebras"

\* layout.tsx 75-77: `if (!response.ok) throw`; the other copies do not test it.
ResponseNotOk ==
  /\ qpc = "await_fetch"
  /\ TestsStatus(copy)
  /\ status' = "not_ok"
  /\ qpc' = "failed_status"
  /\ UNCHANGED <<copy, args, sent, data, searchResults, toolResult>>

\* The body is parsed and normalized; executeWebSearch returns. A copy that
\* does not test response.ok does so for an answer with an error status too.
ResponseParsed ==
  /\ qpc = "await_fetch"
  /\ status' \in (IF TestsStatus(copy) THEN {"ok"} ELSE {"ok", "not_ok"})
  /\ \E d \in SearchBodies :
       /\ data' = d
       /\ searchResults' = Normalize(d, sent)
  /\ qpc' = "returned"
  /\ UNCHANGED <<copy, args, sent, toolResult>>

\* The tool-result turn is pushed with JSON.stringify(searchResults).
PushToolResult ==
  /\ qpc = "returned"
  /\ toolResult' = searchResults
  /\ qpc' = "pushed"
  /\ UNCHANGED <<copy, args, sent, status, data, searchResults>>

\* ================================================ generateTestInBackground
\* The background action of src/convex/testGeneration.ts (38-276): the steps
\* of its try block, each awaited call of which may reject, and its catch
\* block.

\* Largest number of questions in the generated test.
MaxQuestions == 2

\* `geminiResult.context`: missing, empty, white space only, or text.
Contexts == {NULL, "", "  ", "text"}

\* `!extractedContext || extractedContext.trim().length === 0`
ContextIsEmpty(c) == c \in {"", "  "}

\* One element of testData.questions: null, or an object with or without id.
NoQuestionId == <<>>
GivenQuestionId == <<"id", 0>>
Question(isNull, id) == [isNull |-> isNull, id |-> id]
Questions == {Question(TRUE, NoQuestionId), Question(FALSE, NoQuestionId),
              Question(FALSE, GivenQuestionId)}

\* The value the model's answer parses to: null, or an object with a title
\* ('' when missing) and `questions`, an array or not.
TestData(isNull, title, isArray, questions) ==
  [isNull |-> isNull, title |-> title, isArray |-> isArray, questions |-> questions]
NullData == TestData(TRUE, "", FALSE, <<>>)
ObjectDatas ==
  {TestData(FALSE, t, FALSE, <<>>) : t \in {"", "Biology"}}
  \cup UNION {{TestData(FALSE, t, TRUE, qs) : t \in {"", "Biology"}, qs \in [1..n -> Questions]} :
                n \in 0..MaxQuestions}

\* `result.text`: JSON text, JSON in a code fence, an object inside other
\* text, or text without JSON.
Text(wrap, value) == [wrap |-> wrap, value |-> value]
Texts ==
  {Text(w, d) : w \in {"plain", "fenced"}, d \in ObjectDatas \cup {NullData}}
  \cup {Text("embedded", d) : d \in ObjectDatas}
  \cup {Text("none", NullData)}

\* extractJSON (7-35) throws when no attempt parses.
ExtractJSONThrows(text) == text.wrap = "none"

\* extractJSON (7-35): the value of the first attempt that parses.
extractJSON(text) == text.value

\* testGeneration.ts 213-218: the test of the parsed data.
IsInvalid(d) == d.isNull \/ d.title = "" \/ ~d.isArray \/ Len(d.questions) = 0

\* testGeneration.ts 225: `q.id || `q${index + 1}``
EnsureId(q, index) == IF q.id # NoQuestionId THEN q.id ELSE <<"q", index>>

\* testGeneration.ts 223-226: throws a TypeError on a null element.
MapThrows(d) == \E i \in 1..Len(d.questions) : d.questions[i].isNull

WithIds(d) ==
  [d EXCEPT !.questions =
     [i \in 1..Len(d.questions) |-> Question(FALSE, EnsureId(d.questions[i], i))]]

\* One record written by api.aiTracking.track.
Track(usageType, success) == [usageType |-> usageType, success |-> success]

ErrExtract == "Failed to extract content from files"
ErrInvalid == "Invalid test data structure returned"
ErrNoJSON == "Failed to extract valid JSON from response"
ErrType == "TypeError"
ErrAwait == "awaited call rejected"

VARIABLES
  gpc,               \* where the handler stands
  extractedContext,  \* `geminiResult.context`
  geminiUsage,       \* whether `geminiResult.usage` is there
  testData,          \* the parsed answer of the model
  tracked,           \* the records written by api.aiTracking.track, in order
  completed,         \* the tests stored by api.tests.completeGeneration
  statusWrites,      \* the number of updateGenerationStatus mutations done
  titleWrites,       \* the number of conversations.updateTitle mutations done
  error,             \* the error the catch block was entered with
  outcome            \* how the action ended

genVars == <<gpc, extractedContext, geminiUsage, testData, tracked, completed,
             statusWrites, titleWrites, error, outcome>>

\* No generation is running.
GenIdle ==
  /\ gpc = "idle"
  /\ extractedContext = NULL
  /\ geminiUsage = FALSE
  /\ testData = NullData
  /\ tracked = <<>>
  /\ completed = <<>>
  /\ statusWrites = 0
  /\ titleWrites = 0
  /\ error = NULL
  /\ outcome = "running"

\* The handler is entered (testGeneration.ts 46-48).
InitGen ==
  /\ gpc = "status"
  /\ extractedContext = NULL
  /\ geminiUsage = FALSE
  /\ testData = NullData
  /\ tracked = <<>>
  /\ completed = <<>>
  /\ statusWrites = 0
  /\ titleWrites = 0
  /\ error = NULL
  /\ outcome = "running"

\* testGeneration.ts 52-55: the status is set to "generating".
SetGenerating ==
  /\ gpc = "status"
  /\ statusWrites' = statusWrites + 1
  /\ gpc' = "extract"
  /\ UNCHANGED <<extractedContext, geminiUsage, testData, tracked, completed, error, outcome, titleWrites>>

\* testGeneration.ts 62-75: extractFileContext returns; `extractedContext.length`
\* throws when the context is missing.
ContextExtracted ==
  /\ gpc = "extract"
  /\ \E c \in Contexts, u \in BOOLEAN :
       /\ extractedContext' = c
       /\ geminiUsage' = u
       /\ IF c = NULL
          THEN gpc' = "catch" /\ error' = ErrType
          ELSE gpc' = (IF u THEN "track_file" ELSE "generate") /\ error' = error
  /\ UNCHANGED <<testData, tracked, completed, statusWrites, outcome, titleWrites>>

\* testGeneration.ts 87-98: the usage of the file analysis is tracked.
TrackFileAnalysis ==
  /\ gpc = "track_file"
  /\ tracked' = Append(tracked, Track("file_analysis", TRUE))
  /\ gpc' = "generate"
  /\ UNCHANGED <<extractedContext, geminiUsage, testData, completed, statusWrites, error, outcome, titleWrites>>

\* testGeneration.ts 103-105: an empty context is an error.
ContextEmpty ==
  /\ gpc = "generate"
  /\ ContextIsEmpty(extractedContext)
  /\ error' = ErrExtract
  /\ gpc' = "catch"
  /\ UNCHANGED <<extractedContext, geminiUsage, testData, tracked, completed, statusWrites, outcome, titleWrites>>

\* testGeneration.ts 107-184: generateText returns and its text is parsed;
\* `testData.questions?.length` throws on null.
TextGenerated ==
  /\ gpc = "generate"
  /\ ~ContextIsEmpty(extractedContext)
  /\ \E text \in Texts :
       IF ExtractJSONThrows(text)
       THEN testData' = testData /\ error' = ErrNoJSON /\ gpc' = "catch"
       ELSE /\ testData' = extractJSON(text)
            /\ IF extractJSON(text).isNull
               THEN error' = ErrType /\ gpc' = "catch"
               ELSE error' = error /\ gpc' = "track_creation"
  /\ UNCHANGED <<extractedContext, geminiUsage, tracked, completed, statusWrites, outcome, titleWrites>>

\* testGeneration.ts 199-226: the record is written, then the data is tested
\* and the ids are filled in.
TrackCreation ==
  /\ gpc = "track_creation"
  /\ tracked' = Append(tracked, Track("test_creation", TRUE))
  /\ IF IsInvalid(testData)
     THEN testData' = testData /\ error' = ErrInvalid /\ gpc' = "catch"
     ELSE IF MapThrows(testData)
     THEN testData' = testData /\ error' = ErrType /\ gpc' = "catch"
     ELSE testData' = WithIds(testData) /\ error' = error /\ gpc' = "complete"
  /\ UNCHANGED <<extractedContext, geminiUsage, completed, statusWrites, outcome, titleWrites>>

\* testGeneration.ts 229-236: completeGeneration stores the test.
GenerationCompleted ==
  /\ gpc = "complete"
  /\ completed' = Append(completed, testData)
  /\ gpc' = "get"
  /\ UNCHANGED <<extractedContext, geminiUsage, testData, tracked, statusWrites, error, outcome, titleWrites>>

\* testGeneration.ts 236-246: the test is read; without a conversation the
\* action returns.
TestRead ==
  /\ gpc = "get"
  /\ \E hasConversation \in BOOLEAN :
       IF hasConversation
       THEN gpc' = "title" /\ outcome' = outcome
       ELSE gpc' = "done" /\ outcome' = "success"
  /\ UNCHANGED <<extractedContext, geminiUsage, testData, tracked, completed, statusWrites, error, titleWrites>>

\* testGeneration.ts 238-246: the title of the conversation is set.
TitleUpdated ==
  /\ gpc = "title"
  /\ titleWrites' = titleWrites + 1
  /\ outcome' = "success"
  /\ gpc' = "done"
  /\ UNCHANGED <<extractedContext, geminiUsage, testData, tracked, completed, statusWrites, error>>

\* An awaited call of the try block rejects (52, 62, 87, 162-169, 199, 229,
\* 236, 238) and has written nothing.
AwaitRejected ==
  /\ gpc \in {"status", "extract", "track_file", "generate", "track_creation", "complete",
              "get", "title"}
  /\ (gpc = "generate" => ~ContextIsEmpty(extractedContext))
  /\ error' = ErrAwait
  /\ gpc' = "catch"
  /\ UNCHANGED <<extractedContext, geminiUsage, testData, tracked, completed, statusWrites, outcome, titleWrites>>

\* testGeneration.ts 252-264: the failure is tracked.
TrackFailure ==
  /\ gpc = "catch"
  /\ tracked' = Append(tracked, Track("test_creation", FALSE))
  /\ gpc' = "catch_status"
  /\ UNCHANGED <<extractedContext, geminiUsage, testData, completed, statusWrites, error, outcome, titleWrites>>

\* testGeneration.ts 268-273: the status is written and the failure returned.
FailureReturned ==
  /\ gpc = "catch_status"
  /\ statusWrites' = statusWrites + 1
  /\ outcome' = "failure"
  /\ gpc' = "done"
  /\ UNCHANGED <<extractedContext, geminiUsage, testData, tracked, completed, error, titleWrites>>

\* A mutation of the catch block rejects (252, 268): nothing catches it.
CatchRejected ==
  /\ gpc \in {"catch", "catch_status"}
  /\ outcome' = "rejected"
  /\ gpc' = "done"
  /\ UNCHANGED <<extractedContext, geminiUsage, testData, tracked, completed, statusWrites, error, titleWrites>>

\* ----------------------------------------------------------- the caller
VARIABLES
  abandoned    \* the caller has given the question up

\* The caller gives up (a timeout, a closed connection) while the loop awaits
\* the provider or the search service. The functions take no abort signal
\* (layout.tsx 120-128, part_000 45) and pass none to their requests
\* (layout.tsx 220-228, part_000 115-122), so no state of the loop changes.
Abandon ==
  /\ pc \in {"await_completion", "await_search"}
  /\ ~abandoned
  /\ abandoned' = TRUE
  /\ UNCHANGED <<loopVars, streamVars, searchVars, genVars>>

\* ====================================================== specifications
vars == <<loopVars, streamVars, searchVars, genVars, abandoned>>

\* What each part of the program leaves alone.
besidesLoop == <<streamVars, searchVars, genVars, abandoned>>
besidesStream == <<loopVars, searchVars, genVars, abandoned>>
besidesSearch == <<loopVars, streamVars, genVars, abandoned>>
besidesGen == <<loopVars, streamVars, searchVars, abandoned>>

\* No invocation of the loop is running.
LoopIdle ==
  /\ variant = "streaming"
  /\ options = [maxIterations |-> Absent, maxToolCalls |-> Absent]
  /\ maxIterations = StreamMaxIterations
  /\ maxToolCalls = StreamMaxToolCalls
  /\ iteration = 0
  /\ toolCallsCount = 0
  /\ input = <<UserQuestion>>
  /\ messages = <<SystemPrompt>> \o input
  /\ assistantMessage = NoMessage
  /\ toolIdx = 0
  /\ pc = "idle"
  /\ result = NoResult
  /\ requests = <<>>
  /\ searches = <<>>

\* One invocation of the agent loop.
Init == LoopInit /\ StreamIdle /\ SearchIdle /\ GenIdle /\ abandoned = FALSE

Next ==
  \/ ReturnWithoutKey /\ UNCHANGED besidesLoop
  \/ SendRequest /\ UNCHANGED besidesLoop
  \/ ExitLoop /\ UNCHANGED besidesLoop
  \/ ProviderFails /\ UNCHANGED besidesLoop
  \/ ReceiveToolCalls /\ UNCHANGED besidesLoop
  \/ ReceiveToolCallsStreaming /\ UNCHANGED besidesLoop
  \/ ReceiveContent /\ UNCHANGED besidesLoop
  \/ ReceiveEmpty /\ UNCHANGED besidesLoop
  \/ ForDone /\ UNCHANGED besidesLoop
  \/ ForSkipOther /\ UNCHANGED besidesLoop
  \/ ForBreak /\ UNCHANGED besidesLoop
  \/ ForExecute /\ UNCHANGED besidesLoop
  \/ ForParseThrows /\ UNCHANGED besidesLoop
  \/ SearchReturns /\ UNCHANGED besidesLoop
  \/ SearchFails /\ UNCHANGED besidesLoop

Spec == Init /\ [][Next]_vars

\* Every awaited call settles and the synchronous code between awaits runs on.
SpecFair == Spec /\ WF_vars(Next)

\* The reading of one streamed response.
StreamInit == LoopIdle /\ InitStream /\ SearchIdle /\ GenIdle /\ abandoned = FALSE

StreamNext ==
  \/ ResponseRejected /\ UNCHANGED besidesStream
  \/ ResponseOpened /\ UNCHANGED besidesStream
  \/ ReadFails /\ UNCHANGED besidesStream
  \/ ReadChunk /\ UNCHANGED besidesStream
  \/ ReadDone /\ UNCHANGED besidesStream
  \/ TurnDispatch /\ UNCHANGED besidesStream
  \/ TurnSkipCall /\ UNCHANGED besidesStream
  \/ TurnParseCall /\ UNCHANGED besidesStream
  \/ TurnCallsDone /\ UNCHANGED besidesStream

SpecStream == StreamInit /\ [][StreamNext]_vars

\* One webSearch invocation.
SearchInit == LoopIdle /\ StreamIdle /\ InitSearch /\ GenIdle /\ abandoned = FALSE

SearchNext ==
  \/ CallExecuteWebSearch /\ UNCHANGED besidesSearch
  \/ FetchRejects /\ UNCHANGED besidesSearch
  \/ ResponseNotOk /\ UNCHANGED besidesSearch
  \/ ResponseParsed /\ UNCHANGED besidesSearch
  \/ PushToolResult /\ UNCHANGED besidesSearch

SpecSearch == SearchInit /\ [][SearchNext]_vars

\* One run of generateTestInBackground.
GenInit == LoopIdle /\ StreamIdle /\ SearchIdle /\ InitGen /\ abandoned = FALSE

GenNext ==
  \/ SetGenerating /\ UNCHANGED besidesGen
  \/ ContextExtracted /\ UNCHANGED besidesGen
  \/ TrackFileAnalysis /\ UNCHANGED besidesGen
  \/ ContextEmpty /\ UNCHANGED besidesGen
  \/ TextGenerated /\ UNCHANGED besidesGen
  \/ TrackCreation /\ UNCHANGED besidesGen
  \/ GenerationCompleted /\ UNCHANGED besidesGen
  \/ TestRead /\ UNCHANGED besidesGen
  \/ TitleUpdated /\ UNCHANGED besidesGen
  \/ AwaitRejected /\ UNCHANGED besidesGen
  \/ TrackFailure /\ UNCHANGED besidesGen
  \/ FailureReturned /\ UNCHANGED besidesGen
  \/ CatchRejected /\ UNCHANGED besidesGen

SpecGen == GenInit /\ [][GenNext]_vars

\* One invocation of the agent loop whose caller may give up.
AbandonNext ==
  \/ Next
  \/ Abandon

SpecAbandon == Init /\ [][AbandonNext]_vars

\* ================================================================ claims
Last(s) == s[Len(s)]

\* C1: in chatWithCerebrasWebSearch the tool-call counter never exceeds
\* maxToolCalls, and neither does the number of executed web searches,
\* whatever the provider replies.
C1_CerebrasWithinCap ==
  variant = "cerebras" =>
    /\ toolCallsCount <= maxToolCalls
    /\ Len(searches) <= maxToolCalls

\* A turn asked for more invocations than the cap and the cap was spent on it.
C1_Witness ==
  /\ variant = "cerebras"
  /\ pc = "while"
  /\ Len(assistantMessage.tool_calls) > maxToolCalls
  /\ toolCallsCount = maxToolCalls
  /\ Len(searches) = maxToolCalls

\* C2: in the streaming loops the tool-call counter never exceeds maxToolCalls,
\* and neither does the number of executed web searches, also when a turn asks
\* for more invocations than the remaining budget.
C2_StreamingWithinCap ==
  Streams(variant) =>
    /\ toolCallsCount <= maxToolCalls
    /\ Len(searches) <= maxToolCalls

\* C3: in every copy of the loop the iteration counter never exceeds
\* maxIterations, and the number of chat-completion requests sent equals the
\* iteration counter.
C3_RequestsEqualIterations ==
  /\ iteration <= maxIterations
  /\ Len(requests) = iteration
  /\ Len(requests) <= maxIterations

\* The loop ran out of iterations with every request sent.
C3_Witness ==
  /\ pc = "done"
  /\ result.error = ErrMaxIterations(variant)
  /\ Len(requests) = maxIterations

\* C4: a request carries the tool schema only if the counter is below
\* maxToolCalls when it is built, and no request built after the counter has
\* reached maxToolCalls carries it.
C4_NoToolsOnceCapReached ==
  /\ \A i \in 1..Len(requests) :
       requests[i].tools <=> requests[i].toolCallsCount < maxToolCalls
  /\ \A i \in 1..Len(requests) : \A j \in i..Len(requests) :
       requests[i].toolCallsCount >= maxToolCalls => ~requests[j].tools
  /\ (pc = "await_completion" /\ toolCallsCount >= maxToolCalls) => ~Last(requests).tools

\* A request without the schema follows one with it.
C4_Witness ==
  /\ Len(requests) >= 2
  /\ requests[1].tools
  /\ ~Last(requests).tools
  /\ Last(requests).toolCallsCount = maxToolCalls

\* C5: provided every provider call and every search call returns, every
\* invocation terminates, whatever the model replies.
\* The steps one iteration can take: the request, the reply, and per invocation
\* the parse and the search.
C5_Span == 2 * MaxCallsPerTurn + 4

\* What is left of the run: whole iterations, then the steps left in this one.
C5_Budget ==
  (maxIterations - iteration) * C5_Span
  + (CASE pc = "while" -> 1
       [] pc = "await_completion" -> C5_Span
       [] pc = "for" -> C5_Span - 2 * toolIdx + 1
       [] pc = "await_search" -> C5_Span - 2 * toolIdx
       [] pc = "done" -> 0)
  - (IF pc = "done" THEN (maxIterations - iteration) * C5_Span ELSE 0)

\* The invocation ends, and every step before the end uses up budget that
\* never runs below zero.
C5_Terminates ==
  /\ <>(pc = "done")
  /\ [][C5_Budget' < C5_Budget /\ C5_Budget' >= 0]_vars

\* The loop ran through every iteration on tool calls and ended.
C5_Witness ==
  /\ pc = "done"
  /\ iteration = maxIterations
  /\ Len(searches) > 0
  /\ result.error = ErrMaxIterations(variant)

\* ------------------------------------------------- the turn being processed
\* The request that was answered by assistantMessage.
TurnRequest ==
  IF pc = "await_completion" \/ (pc = "done" /\ result.error = ErrProvider)
  THEN iteration - 1 ELSE iteration

HasTurn == assistantMessage # NoMessage /\ TurnRequest >= 1

\* Where assistantMessage sits in the transcript, and what was pushed after it.
TurnIndex == requests[TurnRequest].messages + 1
TurnTail == SubSeq(messages, TurnIndex + 1, Len(messages))

\* The budget left when the turn was received.
TurnRemaining == maxToolCalls - requests[TurnRequest].toolCallsCount

\* The tool-result turns that answer the first n invocations of the turn.
ResultsOfFirst(n) == [p \in 1..n |-> ToolResult(assistantMessage.tool_calls[p].id)]

AllWebSearch(calls) == \A p \in 1..Len(calls) : calls[p].name = WebSearchName

\* The for-of loop over the turn is over and no search was lost on the way.
TurnSettled ==
  /\ pc \in {"while", "await_completion", "done"}
  /\ result.error \notin {ErrSearch, ErrProvider}

\* C6: a tool invocation whose argument text is not valid JSON does not end
\* the loop; a tool-result turn referencing its id is appended and the loop
\* goes on to the next iteration.
C6_UnparsableArgumentsAnswered ==
  /\ result.error # ErrSyntax
  /\ \A p \in 1..Len(assistantMessage.tool_calls) :
       LET tc == assistantMessage.tool_calls[p]
       IN (HasTurn /\ tc.name = WebSearchName /\ tc.arguments = BadArgs
             /\ pc = "done" /\ toolIdx = p)
          => \E i \in 1..Len(TurnTail) :
               TurnTail[i].role = "tool" /\ TurnTail[i].tool_call_id = tc.id

\* C7: when a turn asks for k webSearch invocations and 0 < r < k is left of
\* the budget, exactly the first r are executed and answered, the other k - r
\* get no tool-result turn, the counter becomes maxToolCalls, and the next
\* request is preceded by a corrective system turn.
C7_FirstRemainingExecuted ==
  (/\ variant = "cerebras"
   /\ HasTurn
   /\ AllWebSearch(assistantMessage.tool_calls)
   /\ 0 < TurnRemaining
   /\ TurnRemaining < Len(assistantMessage.tool_calls)
   /\ TurnSettled)
  => /\ toolCallsCount = maxToolCalls
     /\ IF pc = "await_completion"
        THEN /\ TurnTail = ResultsOfFirst(TurnRemaining) \o <<AnswerNowDirective>>
             /\ ~Last(requests).tools
        ELSE TurnTail = ResultsOfFirst(TurnRemaining)

\* C8: when the turn received in the last iteration carries tool invocations,
\* the invocation ends with the budget-exhausted failure once the permitted
\* invocations are executed, and never with a completed result.
C8_LastTurnToolCallsExhaust ==
  (/\ pc = "done"
   /\ HasTurn
   /\ TurnRequest = maxIterations
   /\ Len(assistantMessage.tool_calls) > 0
   /\ result.error \notin {ErrSearch, ErrProvider})
  => /\ result.kind = "failed"
     /\ result.error = ErrMaxIterations(variant)

\* C9: the loop completes in an iteration exactly when that iteration's turn
\* carries no tool invocations and non-empty text; it returns that text and
\* the current counter.  Text beside tool invocations never completes.
C9_CompletedIffContentOnly ==
  /\ pc # "done" => result.kind = "running"
  /\ pc = "done" =>
       (result.kind = "completed" <=>
          /\ HasTurn
          /\ TurnRequest = iteration
          /\ Last(messages) = assistantMessage
          /\ Len(assistantMessage.tool_calls) = 0
          /\ assistantMessage.content \notin {NULL, ""})
  /\ (result.kind = "completed" /\ variant # "gmi") =>
       /\ result.content = assistantMessage.content
       /\ result.toolCalls = toolCallsCount
  /\ (result.kind = "completed" /\ iteration = 1) => toolCallsCount = 0

\* An answer returned after searches were made.
C9_Witness ==
  /\ result.kind = "completed"
  /\ result.content = "answer"
  /\ result.toolCalls > 0
  /\ iteration > 1

\* C10: a turn with neither tool invocations nor non-empty text ends the
\* invocation at once with the empty-response failure, which differs from the
\* budget-exhausted failure; no request is sent after it.
C10_EmptyTurnFails ==
  /\ ErrEmpty # ErrMaxIterations(variant)
  /\ pc = "done" =>
       (result.error = ErrEmpty <=>
          /\ HasTurn
          /\ TurnRequest = iteration
          /\ Last(messages) = assistantMessage
          /\ Len(assistantMessage.tool_calls) = 0
          /\ assistantMessage.content \in {NULL, ""})
  /\ result.error = ErrEmpty =>
       /\ pc = "done"
       /\ result.kind = "failed"
       /\ Len(requests) = iteration
       /\ Last(requests).messages + 1 = Len(messages)

\* An empty turn after searches, before the iterations ran out.
C10_Witness ==
  /\ result.error = ErrEmpty
  /\ iteration > 1
  /\ iteration < maxIterations
  /\ Len(searches) > 0

\* The content increments of a fragment sequence, in arrival order.
RECURSIVE ContentOf(_)
ContentOf(frs) ==
  IF frs = <<>> THEN <<>> ELSE Head(frs).content \o ContentOf(Tail(frs))

\* C11: the content of the assistant turn, while the stream is read and when
\* the turn is finalized, is the concatenation in arrival order of the content
\* increments of all fragments decoded so far, whatever tool-call fragments
\* arrive between them.
C11_ContentIsConcatenation ==
  /\ spc = "reading" => accum.content = ContentOf(fragments)
  /\ spc \notin {"idle", "await_response", "reading", "failed"} =>
       turn.content = ContentOf(fragments)

\* 'Hel', a tool-call fragment, 'lo': the finalized turn says 'Hello'.
C11_Witness ==
  /\ spc = "pushed"
  /\ Len(fragments) = 3
  /\ fragments[1].content = <<"Hel">>
  /\ fragments[2].content = <<>>
  /\ fragments[2].tool_calls # <<>>
  /\ fragments[3].content = <<"lo">>
  /\ turn.content = <<"Hel", "lo">>

\* The tool-call fragments of a fragment sequence, in arrival order.
RECURSIVE CallDeltasOf(_)
CallDeltasOf(frs) ==
  IF frs = <<>> THEN <<>> ELSE Head(frs).tool_calls \o CallDeltasOf(Tail(frs))

\* The name and the argument increments that arrived for one index, joined.
RECURSIVE NameFor(_, _)
NameFor(ds, index) ==
  IF ds = <<>> THEN <<>>
  ELSE (IF Head(ds).index = index THEN Head(ds).name ELSE <<>>)
       \o NameFor(Tail(ds), index)

RECURSIVE ArgumentsFor(_, _)
ArgumentsFor(ds, index) ==
  IF ds = <<>> THEN <<>>
  ELSE (IF Head(ds).index = index THEN Head(ds).arguments ELSE <<>>)
       \o ArgumentsFor(Tail(ds), index)

\* The indices the provider uses.
C12_Indices ==
  UNION {{EventTable[e].tool_calls[k].index :
            k \in 1..Len(EventTable[e].tool_calls)} : e \in Events}

\* C12: for every index that received a fragment the accumulator holds one
\* invocation, at that index, whose name and arguments are the concatenation
\* in arrival order of the increments received for that index and of no
\* other; an index that received none holds no invocation.
C12_PerIndexConcatenation ==
  spc \notin {"idle", "await_response", "failed"} =>
    LET ds == CallDeltasOf(fragments)
        arr == accum.tool_calls
    IN /\ \A p \in 1..Len(arr) : p - 1 \in C12_Indices
       /\ \A i \in C12_Indices :
            IF \E k \in 1..Len(ds) : ds[k].index = i
            THEN /\ i + 1 <= Len(arr)
                 /\ ~arr[i + 1].hole
                 /\ arr[i + 1].name = NameFor(ds, i)
                 /\ arr[i + 1].arguments = ArgumentsFor(ds, i)
            ELSE (i + 1 <= Len(arr) => arr[i + 1].hole)

\* Fragments of index 0 and index 1 arrived interleaved and both invocations
\* were put together from theirs.
C12_Witness ==
  /\ spc = "pushed"
  /\ Len(fragments) = 3
  /\ Len(accum.tool_calls) = 2
  /\ accum.tool_calls[1].name = <<"webSearch">>
  /\ accum.tool_calls[1].arguments = <<"{\"query\":", "\"q\"}">>
  /\ accum.tool_calls[2].name = <<"calc", "ulate">>
  /\ accum.tool_calls[2].arguments = <<"[]", " ">>

\* The position of the last assistant turn before position i, or 0.
C13_AssistantBefore(i) ==
  IF \E j \in 1..(i - 1) : messages[j].role = "assistant"
  THEN CHOOSE j \in 1..(i - 1) :
         /\ messages[j].role = "assistant"
         /\ \A k \in (j + 1)..(i - 1) : messages[k].role # "assistant"
  ELSE 0

\* C13: every tool-result turn of the transcript has an assistant turn before
\* it, and its tool_call_id is the id of one of the invocations of the most
\* recent such turn.
C13_ToolResultsAnswerLastTurn ==
  \A i \in 1..Len(messages) :
    messages[i].role = "tool" =>
      /\ C13_AssistantBefore(i) # 0
      /\ messages[i].tool_call_id # NoId
      /\ \E k \in 1..Len(messages[C13_AssistantBefore(i)].tool_calls) :
           messages[C13_AssistantBefore(i)].tool_calls[k].id = messages[i].tool_call_id

\* Two assistant turns asked for searches and the second invocation of the
\* later turn has been answered.
C13_Witness ==
  /\ Len(messages) >= 4
  /\ Last(messages).role = "tool"
  /\ messages[Len(messages) - 1].role = "tool"
  /\ \E j \in 1..(C13_AssistantBefore(Len(messages)) - 1) : messages[j].role = "tool"
  /\ Len(messages[C13_AssistantBefore(Len(messages))].tool_calls) >= 2
  /\ messages[C13_AssistantBefore(Len(messages))].tool_calls[2].id
       = Last(messages).tool_call_id

\* C14: in chatWithCerebrasWebSearch, for every configured options.maxIterations
\* and options.maxToolCalls, 0 included, the provider requests never exceed the
\* configured maxIterations and the executed searches never exceed the
\* configured maxToolCalls.
C14_ConfiguredCapsEnforced ==
  variant = "cerebras" =>
    /\ options.maxIterations # Absent => Len(requests) <= options.maxIterations
    /\ options.maxToolCalls # Absent => Len(searches) <= options.maxToolCalls

\* C15: once the caller has abandoned the question no further provider
\* request is sent and no further search is executed, and the invocation ends
\* with the Cancelled failure.
C15_AbandonmentCancels ==
  [][/\ abandoned => (requests' = requests /\ searches' = searches)
     /\ (abandoned' /\ pc' = "done") =>
          (result'.kind = "failed" /\ result'.error = "Cancelled")]_vars

\* C16: an invocation of chatWithWebSearchStreaming ends either with a
\* completed result, whose text is the whole content of the last assistant
\* turn and which is returned after that turn was received in full, or with
\* one failure; a failed provider request ends it with the failure and no
\* completed result.
C16_CompletedOrFailure ==
  (variant = "streaming" /\ pc = "done") =>
    /\ result.kind \in {"completed", "failed"}
    /\ result.kind = "completed" =>
         /\ result.error = NULL
         /\ HasTurn
         /\ TurnRequest = iteration
         /\ Last(messages) = assistantMessage
         /\ result.content = assistantMessage.content
    /\ result.kind = "failed" => (result.error # NULL /\ result.content = NULL)
    /\ (Len(requests) > 0 /\ ~HasTurn) =>
         (result.kind = "failed" /\ result.error = ErrProvider)

\* C17: whatever numResults the model supplies in a webSearch invocation
\* (below 2, above 10, 0, or none), the count sent to the search service lies
\* within 2..10.
C17_NumResultsWithinRange ==
  qpc \notin {"idle", "parsed"} => sent \in SchemaMinimum..SchemaMaximum

\* C18: executeWebSearch returns at most numResults entries, in upstream
\* order, each holding only title, snippet and link; with no upstream list or
\* an empty one it returns the empty list, and the tool-result turn that
\* follows carries what was returned.
C18_NormalizedResults ==
  qpc \in {"returned", "pushed"} =>
    /\ Len(searchResults) <= (IF sent < 0 THEN 0 ELSE sent)
    /\ Len(searchResults) <= Len(data.organic)
    /\ \A k \in 1..Len(searchResults) :
         /\ DOMAIN searchResults[k] = {"title", "snippet", "link"}
         /\ searchResults[k].title = data.organic[k].title
         /\ searchResults[k].snippet = data.organic[k].snippet
         /\ searchResults[k].link = data.organic[k].link
    /\ (~data.hasOrganic \/ data.organic = <<>>) => searchResults = <<>>
    /\ qpc = "pushed" => toolResult = searchResults

\* Request i was sent right after an answer-now directive that was appended in
\* iteration i itself, behind everything the iteration before left.
C19_Injected(i) ==
  /\ messages[requests[i].messages] = AnswerNowDirective
  /\ requests[i].messages > (IF i = 1 THEN 2 ELSE requests[i - 1].messages + 1)

\* C19: in chatWithCerebrasWebSearch a request is sent right after an
\* answer-now directive appended in its own iteration exactly when it carries
\* no tool schema and its iteration is not the first; the transcript holds no
\* other answer-now directive.
C19_DirectiveBeforeToollessRequest ==
  variant = "cerebras" =>
    /\ \A i \in 1..Len(requests) :
         /\ requests[i].iteration = i
         /\ C19_Injected(i) <=> (~requests[i].tools /\ i > 1)
    /\ \A p \in 1..Len(messages) :
         messages[p] = AnswerNowDirective =>
           \E i \in 1..Len(requests) : requests[i].messages = p /\ C19_Injected(i)

\* A request without the schema went out behind the directive, after requests
\* with the schema that had none before them.
C19_Witness ==
  /\ variant = "cerebras"
  /\ Len(requests) >= 3
  /\ requests[1].tools
  /\ requests[2].tools
  /\ ~C19_Injected(2)
  /\ ~requests[3].tools
  /\ C19_Injected(3)

\* C20: in chatWithCerebrasWebSearch, when a turn with tool invocations
\* arrives while toolCallsCount >= maxToolCalls, the step appends the turn and
\* one limit-reached directive and nothing else, leaves the counter and the
\* executed searches as they were, and goes back to the loop head.
C20_RefusedTurn ==
  [][(/\ variant = "cerebras"
      /\ pc = "await_completion"
      /\ toolCallsCount >= maxToolCalls
      /\ Len(messages') > Len(messages)
      /\ Len(messages'[Len(messages) + 1].tool_calls) > 0)
     => /\ toolCallsCount' = toolCallsCount
        /\ searches' = searches
        /\ messages' = messages \o <<assistantMessage', LimitReachedDirective>>
        /\ assistantMessage'.role = "assistant"
        /\ pc' = "while"
        /\ iteration' = iteration
        /\ requests' = requests]_vars

\* A turn was refused: the directive is the last turn, behind a turn that
\* asked for searches, and the counter stands at the cap.
C20_Witness ==
  /\ variant = "cerebras"
  /\ pc = "while"
  /\ Last(messages) = LimitReachedDirective
  /\ messages[Len(messages) - 1] = assistantMessage
  /\ Len(assistantMessage.tool_calls) > 0
  /\ toolCallsCount = maxToolCalls
  /\ Len(searches) = maxToolCalls

\* The tool-result turns of the transcript.
C21_ToolResults == {i \in 1..Len(messages) : messages[i].role = "tool"}

\* C21: at every iteration boundary the number of tool-result turns in the
\* transcript equals the tool-call counter, and so does the number of executed
\* searches, whatever tools the assistant turns name.
C21_ToolResultsEqualCounter ==
  pc = "while" =>
    /\ Cardinality(C21_ToolResults) = toolCallsCount
    /\ Len(searches) = toolCallsCount

\* C22: no step lowers the iteration counter or the tool-call counter; the
\* iteration counter moves by one, at the loop head; the tool-call counter
\* moves only while a turn with tool invocations is taken in or worked off.
C22_CountersMonotone ==
  [][/\ iteration' >= iteration
     /\ toolCallsCount' >= toolCallsCount
     /\ iteration' # iteration => (pc = "while" /\ iteration' = iteration + 1)
     /\ toolCallsCount' # toolCallsCount =>
          \/ pc = "await_completion" /\ Len(assistantMessage'.tool_calls) > 0
          \/ pc = "for" /\ Len(assistantMessage.tool_calls) > 0]_vars

\* Both counters have moved in several iterations.
C22_Witness ==
  /\ pc = "while"
  /\ iteration >= 3
  /\ toolCallsCount >= 2
  /\ \E i \in 2..Len(requests) :
       /\ requests[i].toolCallsCount > requests[i - 1].toolCallsCount
       /\ requests[i].toolCallsCount < toolCallsCount

\* C23: once the accumulator holds a non-empty id for an index, no later
\* fragment changes it: the read either goes on with the id as it is or fails.
C23_IdNeverReassigned ==
  [][spc' # "failed" =>
       \A p \in 1..Len(accum.tool_calls) :
         accum.tool_calls[p].id # <<>> =>
           /\ p <= Len(accum'.tool_calls)
           /\ accum'.tool_calls[p].id = accum.tool_calls[p].id]_vars

\* The accumulated invocations that have an id, in their order.
RECURSIVE C24_WithId(_)
C24_WithId(arr) ==
  IF arr = <<>> THEN <<>>
  ELSE (IF Head(arr).hole \/ Head(arr).id = <<>> THEN <<>> ELSE <<Head(arr)>>)
       \o C24_WithId(Tail(arr))

\* C24: the pushed turn carries exactly the accumulated invocations that have
\* a non-empty id, in their order, and neither unfilled positions nor entries
\* without id; when none is left it has no tool_calls field and is taken as a
\* content-only turn or as an empty one.
C24_EmptyIdsDropped ==
  spc \notin {"idle", "await_response", "reading", "failed"} =>
    /\ turn.tool_calls = C24_WithId(accum.tool_calls)
    /\ turn.has_tool_calls <=> C24_WithId(accum.tool_calls) # <<>>
    /\ C24_WithId(accum.tool_calls) = <<>> =>
         /\ spc \in {"pushed", "completed", "empty"}
         /\ spc = "completed" => turn.content # <<>>
         /\ spc = "empty" => turn.content = <<>>
    /\ C24_WithId(accum.tool_calls) # <<>> =>
         spc \in {"pushed", "for", "threw", "continue"}

\* Text arrived beside an unfilled position and an invocation without id: the
\* turn was pushed without tool_calls and its text is the answer.
C24_Witness ==
  /\ spc = "completed"
  /\ Len(accum.tool_calls) = 2
  /\ accum.tool_calls[1].hole
  /\ ~accum.tool_calls[2].hole
  /\ accum.tool_calls[2].id = <<>>
  /\ ~turn.has_tool_calls
  /\ turn.content # <<>>

\* C25: the outcome of reading a stream does not depend on how the body is cut
\* into chunks: whatever the chunks were, the deltas decoded so far are those of
\* the complete lines of the part of the body read so far, the buffer is the
\* piece behind its last newline, the accumulated message is the fold of these
\* deltas, and the pushed turn is its clean-up.
C25_Consumed == SubSeq(body, 1, Len(body) - Len(wire))

C25_ChunkingIndependent ==
  spc # "failed" =>
    LET lines == Split(C25_Consumed)
    IN /\ fragments = DecodeLines(SubSeq(lines, 1, Len(lines) - 1))
       /\ buffer = lines[Len(lines)]
       /\ accum = ApplyDeltas(EmptyAccum, fragments)
       /\ spc \notin {"idle", "await_response", "reading"} => turn = Finalize(accum)

\* A chunk has ended between the two halves of the JSON text of the event that
\* starts invocation 0, behind a complete text event.
C25_Witness ==
  /\ spc = "reading"
  /\ buffer = <<DataPrefix, JsonHalf(3, 1)>>
  /\ wire # <<>>
  /\ Head(wire) = JsonHalf(3, 2)
  /\ fragments = <<EventTable[1]>>

\* C26: a malformed event is skipped: the accumulated message and the pushed
\* turn are those of the same body without its malformed data lines (payload
\* that is no JSON text, or an event that lacks the expected structure).
C26_Malformed(line) ==
  /\ line # <<>>
  /\ Head(line) = DataPrefix
  /\ Trim(line) # <<DataPrefix, DoneText>>
  /\ LET e == ParseJSON(Tail(line))
     IN e = 0 \/ EventTable[e].throws

C26_WellFormedOnly(ls) == SelectSeq(ls, LAMBDA l : ~C26_Malformed(l))

C26_Lines == LET lines == Split(body) IN SubSeq(lines, 1, Len(lines) - 1)

C26_MalformedSkipped ==
  spc \notin {"idle", "await_response", "reading", "failed"} =>
    LET without == ApplyDeltas(EmptyAccum, DecodeLines(C26_WellFormedOnly(C26_Lines)))
    IN /\ accum = without
       /\ turn = Finalize(without)

\* C27: when the stream has closed, every well-formed data event of the body
\* has been decoded, once and in order, the one on a last line without newline
\* included, and the accumulated message is the fold of these events.
C27_EveryEventOnce ==
  spc \notin {"idle", "await_response", "reading", "failed"} =>
    /\ fragments = DecodeLines(Split(body))
    /\ accum = ApplyDeltas(EmptyAccum, DecodeLines(Split(body)))

\* The lines in front of the first `data: [DONE]` line.
RECURSIVE C28_UpToSentinel(_)
C28_UpToSentinel(ls) ==
  IF ls = <<>> THEN <<>>
  ELSE IF Trim(Head(ls)) = <<DataPrefix, DoneText>> THEN <<>>
  ELSE <<Head(ls)>> \o C28_UpToSentinel(Tail(ls))

\* C28: the line `data: [DONE]` ends the fragment sequence of the turn: the
\* accumulated message is the fold of the events in front of the sentinel, and
\* no event behind it is decoded.
C28_SentinelTerminates ==
  spc \notin {"idle", "await_response", "failed"} =>
    LET lines == Split(C25_Consumed)
        before == C28_UpToSentinel(SubSeq(lines, 1, Len(lines) - 1))
    IN /\ fragments = DecodeLines(before)
       /\ accum = ApplyDeltas(EmptyAccum, DecodeLines(before))

\* C29: JSON.parse is called on the argument text of an invocation only when
\* the stream of the turn has ended and the turn has been cleaned up and
\* pushed, never while the response is awaited or read, and at most once for
\* each invocation, in list order, and only for invocations of the turn.
C29_ParsedOnceAfterEnd ==
  /\ spc \in {"idle", "await_response", "reading", "failed", "pushed"} => parsed = <<>>
  /\ parsed # <<>> => /\ wire = <<>>
                      /\ turn = Finalize(accum)
                      /\ spc \in {"for", "threw", "continue"}
  /\ \A i \in 1..Len(parsed) :
       /\ parsed[i] \in 1..Len(turn.tool_calls)
       /\ \A j \in 1..Len(parsed) : i < j => parsed[i] < parsed[j]

\* The arguments of invocation 0 arrived in two fragments and were parsed
\* once, after the stream, as the text the two make together.
C29_Witness ==
  /\ spc = "continue"
  /\ parsed = <<1>>
  /\ Len(fragments) = 2
  /\ turn.tool_calls[1].arguments = <<"{\"query\":", "\"q\"}">>

\* The tool-result turns of the webSearch invocations among the first n of a
\* turn, in list order.
RECURSIVE C30_ResultsOfFirst(_, _)
C30_ResultsOfFirst(calls, n) ==
  IF n = 0 THEN <<>>
  ELSE C30_ResultsOfFirst(calls, n - 1)
       \o (IF calls[n].name = WebSearchName THEN <<ToolResult(calls[n].id)>> ELSE <<>>)

C30_ToolResults == {i \in 1..Len(messages) : messages[i].role = "tool"}

\* C30: one invocation runs strictly in sequence. A request is in flight only
\* while no search is; it is the request of the current iteration, one per
\* iteration, and its transcript is the whole transcript, with the tool-result
\* turn of every search started so far. At most one search is in flight, the
\* one of the invocation the for-of loop stands on, and the tool results
\* pushed behind the turn are those of the webSearch invocations in front of
\* it, in list order.
C30_StrictlySequential ==
  /\ Len(requests) = iteration
  /\ pc = "await_completion" =>
       /\ Last(requests).iteration = iteration
       /\ Last(requests).messages = Len(messages)
       /\ Cardinality(C30_ToolResults) = Len(searches)
       /\ \A i \in 1..(Len(requests) - 1) : requests[i].messages < Last(requests).messages
  /\ pc = "await_search" =>
       /\ Len(searches) = Cardinality(C30_ToolResults) + 1
       /\ Last(searches) = assistantMessage.tool_calls[toolIdx].id
  /\ pc \in {"while", "for"} => Len(searches) = Cardinality(C30_ToolResults)
  /\ pc \in {"for", "await_search"} =>
       /\ HasTurn
       /\ messages[TurnIndex] = assistantMessage
       /\ TurnTail = C30_ResultsOfFirst(assistantMessage.tool_calls, toolIdx - 1)

\* The second request is in flight; the turn of the first iteration had two
\* webSearch invocations and both tool results, in list order, are the last
\* two turns of the transcript that was sent.
C30_Witness ==
  /\ pc = "await_completion"
  /\ iteration = 2
  /\ Len(assistantMessage.tool_calls) = 2
  /\ Len(searches) = 2
  /\ Last(requests).messages = Len(messages)
  /\ messages[Len(messages) - 1] = ToolResult(assistantMessage.tool_calls[1].id)
  /\ messages[Len(messages)] = ToolResult(assistantMessage.tool_calls[2].id)
  /\ assistantMessage.tool_calls[1].id # assistantMessage.tool_calls[2].id

C31_AssistantTurns == {i \in 1..Len(messages) : messages[i].role = "assistant"}

\* C31: the transcript only grows at its end: every step keeps the turns that
\* are in it, in place and unchanged, and leaves the caller's array alone. The
\* step that takes a provider response appends the assistant turn first,
\* whatever it holds, and only system turns behind it; every other step
\* appends no assistant turn.
C31_AppendOnly ==
  [][/\ Len(messages') >= Len(messages)
     /\ SubSeq(messages', 1, Len(messages)) = messages
     /\ input' = input
     /\ LET added == SubSeq(messages', Len(messages) + 1, Len(messages'))
            responded == /\ pc = "await_completion"
                         /\ ~(pc' = "done" /\ result'.error = ErrProvider)
        IN IF responded
           THEN /\ Len(added) >= 1
                /\ added[1] = assistantMessage'
                /\ added[1].role = "assistant"
                /\ \A i \in 2..Len(added) : added[i].role = "system"
           ELSE \A i \in 1..Len(added) : added[i].role # "assistant"]_vars

\* Three responses were taken by chatWithCerebrasWebSearch: a turn whose search
\* was executed, a turn behind the directive to answer that was refused with
\* the corrective turn, and a turn without text or invocations; each is in the
\* transcript, behind the caller's turn.
C31_Witness ==
  /\ variant = "cerebras"
  /\ pc = "done"
  /\ result.error = ErrEmpty
  /\ Len(requests) = 3
  /\ Cardinality(C31_AssistantTurns) = 3
  /\ messages[2] = input[1]
  /\ \E i \in C31_AssistantTurns :
       /\ i + 4 <= Len(messages)
       /\ messages[i + 1].role = "tool"
       /\ messages[i + 2] = AnswerNowDirective
       /\ messages[i + 3].role = "assistant"
       /\ messages[i + 4] = LimitReachedDirective
  /\ Last(messages) = assistantMessage
  /\ ~HasToolCalls(assistantMessage)

\* C32: a search call that the service answers with an error status fails:
\* executeWebSearch throws, the call is sent once and nothing is returned or
\* pushed as a tool result for it.
C32_FailedSearchFails ==
  status = "not_ok" =>
    /\ qpc = "failed_status"
    /\ sent # NotSent
    /\ toolResult = <<>>

\* The turn has tool invocations and none of them names webSearch.
C33_OnlyOtherTools(m) ==
  /\ HasToolCalls(m)
  /\ \A p \in 1..Len(m.tool_calls) : m.tool_calls[p].name # WebSearchName

\* chatWithCerebrasWebSearch is processing, or has processed, such a turn and
\* has not yet started the next iteration.
C33_OtherToolsTurn ==
  /\ variant = "cerebras"
  /\ pc \in {"for", "while"}
  /\ HasTurn
  /\ C33_OnlyOtherTools(assistantMessage)

\* Every request so far was answered by a turn that only requests other tools.
C33_OnlyEverOtherTools ==
  /\ variant = "cerebras"
  /\ Len(requests) >= 1
  /\ Cardinality(C31_AssistantTurns) = Len(requests)
  /\ \A i \in C31_AssistantTurns : C33_OnlyOtherTools(messages[i])

\* C33 as stated: in chatWithCerebrasWebSearch a turn whose invocations all
\* name another tool leaves the counter as it was when the request was sent
\* and nothing is pushed behind the turn; when every turn was of this kind the
\* invocation ends with the max-iterations failure after maxIterations
\* requests.
C33_OtherToolsIgnored ==
  /\ C33_OtherToolsTurn =>
       /\ toolCallsCount = requests[TurnRequest].toolCallsCount
       /\ TurnTail = <<>>
       /\ result = NoResult
  /\ (C33_OnlyEverOtherTools /\ pc = "done") =>
       /\ result = Failed(ErrMaxIterations(variant))
       /\ Len(requests) = maxIterations

\* C33 amended: the turn is ignored in this way when the counter is below
\* maxToolCalls at its arrival; at the cap it is refused like every turn with
\* tool invocations: the counter stays and the corrective system turn is
\* pushed behind it. The second part is as stated.
C33_OtherToolsIgnoredBelowCap ==
  /\ C33_OtherToolsTurn =>
       /\ toolCallsCount = requests[TurnRequest].toolCallsCount
       /\ result = NoResult
       /\ TurnTail = (IF toolCallsCount < maxToolCalls
                      THEN <<>> ELSE <<LimitReachedDirective>>)
  /\ (C33_OnlyEverOtherTools /\ pc = "done") =>
       /\ result = Failed(ErrMaxIterations(variant))
       /\ Len(requests) = maxIterations
       /\ toolCallsCount = 0

\* Four requests, each answered by a turn that asks for the calculator: the
\* transcript holds the four turns and nothing else behind the question.
C33_Witness ==
  /\ C33_OnlyEverOtherTools
  /\ pc = "done"
  /\ maxIterations = 4
  /\ Len(requests) = 4
  /\ Len(messages) = 6
  /\ toolCallsCount = 0
  /\ result = Failed(ErrMaxIterations(variant))

C34_Validated(d) ==
  /\ ~d.isNull
  /\ d.title # ""
  /\ d.isArray
  /\ Len(d.questions) > 0
  /\ \A i \in 1..Len(d.questions) :
       ~d.questions[i].isNull /\ d.questions[i].id # NoQuestionId

\* C34: a run of generateTestInBackground that has ended returned
\* {success: true} exactly if completeGeneration stored the test in that run;
\* completeGeneration runs at most once, and only with data that has a title
\* and a non-empty array of questions that all have a non-empty id.
C34_SuccessIffCompleted ==
  /\ gpc = "done" => (outcome = "success" <=> Len(completed) >= 1)
  /\ Len(completed) <= 1
  /\ \A k \in 1..Len(completed) : C34_Validated(completed[k])

C35_Failures == {k \in 1..Len(tracked) : tracked[k] = Track("test_creation", FALSE)}
C35_Successes == {k \in 1..Len(tracked) : tracked[k] = Track("test_creation", TRUE)}

\* C35: a run in which a step of the generation failed ends by returning
\* {success: false, error}, with one test_creation record with success = false
\* written; and no run writes test_creation records of both kinds.
C35_FailureReturnedOnce ==
  /\ (gpc = "done" /\ error # NULL) =>
       /\ outcome = "failure"
       /\ Cardinality(C35_Failures) = 1
  /\ C35_Failures = {} \/ C35_Successes = {}

====
